---- MODULE Spec2Model ----
(***************************************************************************)
(* scripts/scrape_urls.py: parallel URL scraper.  main() loads and         *)
(* deduplicates the URLs, sizes a ThreadPoolExecutor, submits one          *)
(* fetch_url task per URL, collects the futures as they complete, sorts    *)
(* the results by index and writes them out.                               *)
(*                                                                         *)
(* Python values: None is the empty tuple <<>>, a present value v is <<v>>.*)
(* A dict is a record whose DOMAIN is its key set.  Indices are 0-based as *)
(* in the source; urls is a sequence, so urls[index + 1] is urls[index].   *)
(***************************************************************************)
EXTENDS Integers, Sequences, FiniteSets, TLC

VARIABLES
    args,        \* argparse.Namespace: urls, urls_files, max_workers, format, max_bytes
    cpu,         \* what os.cpu_count() returns: <<>> (None) or <<n>>
    pc,          \* position of the main thread
    urls,        \* main: urls (deduplicated)
    workers,     \* main: workers (size of the pool), 0 before the pool exists
    submitted,   \* number of executor.submit calls made so far
    queue,       \* the executor's FIFO work queue (indices of queued tasks)
    task,        \* index -> "new" | "queued" | "running" | "done"
    env,         \* index -> what the network did to the task (set when it ran)
    future,      \* index -> the future's outcome (set when the task is done)
    yielded,     \* indices of the futures as_completed has yielded, in that order
    results,     \* main: results
    handed,      \* the list write_output was called with (<<>> before)
    written,     \* number of write_output calls
    fs,          \* the file system at the output path
    summary,     \* the "Finished." line: <<>> or <<ok, total>>
    exitCode,    \* process exit status, NoExit while running
    interrupted  \* a KeyboardInterrupt was raised in the main thread

vars == <<args, cpu, pc, urls, workers, submitted, queue, task, env, future,
          yielded, results, handed, written, fs, summary, exitCode, interrupted>>

None == <<>>
Some(v) == <<v>>
NoExit == -1

(* ---------------------------- bounds ----------------------------------- *)
MaxDirect == 2      \* --url occurrences

(* Strings the command line may hold.  "no-scheme" is a string for which  *)
(* url_request.Request() raises ValueError ("unknown url type").           *)
DirectPool == {"", "http://a", "no-scheme"}
Malformed(url) == url = "no-scheme"

(* A raw line of a list file: text with optional surrounding whitespace.   *)
Line(p, t) == [pad |-> p, text |-> t]
MissingFile == [path |-> "missing.txt", readable |-> FALSE, lines |-> <<>>]
ListFile ==
    [path |-> "list.txt", readable |-> TRUE,
     lines |-> << Line(TRUE, "http://b"), Line(FALSE, "#comment"),
                  Line(TRUE, ""), Line(FALSE, "http://a") >>]
Stdin == [path |-> "-", readable |-> TRUE, lines |-> << Line(FALSE, "#only") >>]

(* the --urls-file argument lists tried *)
FileArgs == { <<>>, <<MissingFile>>, <<Stdin>>, <<ListFile>>, <<Stdin, ListFile>>,
              <<ListFile, MissingFile>> }

SeqsUpTo(S, n) == UNION { [1..k -> S] : k \in 0..n }

RECURSIVE Concat(_)
Concat(ss) == IF ss = <<>> THEN <<>> ELSE Head(ss) \o Concat(Tail(ss))

(* ---------------------------- URL source ------------------------------- *)
(* str.strip() and str.startswith("#") on a raw line *)
strip(raw_line) == raw_line.text
startswith_hash(line) == line \in {"#comment", "#only"}

(* read_urls_file._iter_lines *)
RECURSIVE _iter_lines(_)
_iter_lines(lines) ==
    IF lines = <<>> THEN <<>>
    ELSE LET line == strip(Head(lines)) IN
         IF line = "" \/ startswith_hash(line)
         THEN _iter_lines(Tail(lines))
         ELSE <<line>> \o _iter_lines(Tail(lines))

(* read_urls_file: "-" reads stdin; otherwise open() raises OSError on an  *)
(* unreadable path.                                                        *)
read_urls_file_raises(file) == file.path # "-" /\ ~file.readable
read_urls_file(file) == _iter_lines(file.lines)

(* faulty variant: the loop does not test "if url" *)
RECURSIVE unique_keeps_empty(_, _, _)
unique_keeps_empty(all, seen, unique) ==
    IF all = <<>> THEN unique
    ELSE IF Head(all) \notin seen
         THEN unique_keeps_empty(Tail(all), seen \cup {Head(all)}, Append(unique, Head(all)))
         ELSE unique_keeps_empty(Tail(all), seen, unique)

(* the dedup loop of load_urls *)
RECURSIVE unique_of(_, _, _)
unique_of(all, seen, unique) ==
    IF all = <<>> THEN unique
    ELSE LET url == Head(all) IN
         IF url # "" /\ url \notin seen
         THEN unique_of(Tail(all), seen \cup {url}, Append(unique, url))
         ELSE unique_of(Tail(all), seen, unique)

(* faulty variant: an unreadable list file is skipped silently *)
load_urls_skips_unreadable(a) == FALSE

load_urls_raises(a) ==
    \E k \in 1..Len(a.urls_files) : read_urls_file_raises(a.urls_files[k])

load_urls(a) ==
    LET fromFiles == Concat([k \in 1..Len(a.urls_files) |->
                                read_urls_file(a.urls_files[k])])
    IN unique_of(a.urls \o fromFiles, {}, <<>>)

(* ---------------------------- worker count ----------------------------- *)
Max(a, b) == IF a >= b THEN a ELSE b
Min(a, b) == IF a <= b THEN a ELSE b

(* Python truthiness of an Optional[int]: None and 0 are false *)
Truthy(opt) == opt # None /\ opt[1] # 0

DefaultCpuCount == 4
CpuFactor == 5

(* faulty variant: the supplied count is used without max(1, ...) *)
compute_workers_unclamped(a, c, total_urls) ==
    IF total_urls <= 1 THEN 1
    ELSE IF Truthy(a.max_workers) THEN a.max_workers[1]
    ELSE LET cpu_count == IF Truthy(c) THEN c[1] ELSE DefaultCpuCount
         IN Min(total_urls, cpu_count * CpuFactor)

compute_workers(a, c, total_urls) ==
    IF total_urls <= 1 THEN 1
    ELSE IF Truthy(a.max_workers) THEN Max(1, a.max_workers[1])
    ELSE LET cpu_count == IF Truthy(c) THEN c[1] ELSE DefaultCpuCount
         IN Max(1, Min(total_urls, cpu_count * CpuFactor))

(* ---------------------------- fetch worker ----------------------------- *)
(* What the network does to one request: the stage at which it fails (or   *)
(* "none"), the cause, the response body and the measured time.            *)
Event(s, c) == [stage |-> s, cause |-> c, body |-> <<>>]
Response(b) == [stage |-> "none", cause |-> "ok", body |-> b]

(* the response body (bytes) a server sends and round(elapsed, 3) *)
Body == <<72, 255>>
Elapsed == 7
MaxBytesPool == { 1 }

NetworkEvents ==
    { Response(Body),
      Event("connect", "timeout"),     \* urlopen: timeout while connecting
      Event("connect", "refused"),     \* urlopen: DNS failure, refused, TLS
      Event("status", "http_error"),   \* urlopen: error status raised as HTTPError
      Event("read", "timeout") }       \* response.read: timeout while reading

(* Request(url) raises ValueError for a URL it cannot parse, and the       *)
(* network is never reached.                                               *)
EnvEvents(url) ==
    IF Malformed(url) THEN { Event("request", "unknown url type") }
    ELSE NetworkEvents

(* The exception class the standard library raises for an event: urlopen   *)
(* wraps OSErrors of the connect phase in URLError; response.read raises   *)
(* the bare socket.timeout (TimeoutError), which is no URLError.           *)
Raised(e) ==
    CASE e.stage = "none" -> "none"
      [] e.stage = "request" -> "ValueError"
      [] e.stage = "connect" -> "URLError"
      [] e.stage = "status" -> "HTTPError"
      [] e.stage = "read" -> "TimeoutError"

Reason(e) == IF e.cause = "timeout" THEN "timed out" ELSE e.cause

(* bytes.decode(charset, errors="replace"): bytes that do not decode       *)
(* become U+FFFD                                                           *)
ReplacementChar == 65533
AsciiLimit == 128
decode(raw) ==
    [k \in 1..Len(raw) |-> IF raw[k] < AsciiLimit THEN raw[k] ELSE ReplacementChar]

Returned(value) == [raised |-> FALSE, value |-> value]
Raises(exc) == [raised |-> TRUE, exc |-> exc]

Err(prefix, text) == [prefix |-> prefix, text |-> text]

OkStatus == 200
ErrStatus == 404

(* faulty variant: the comparison with the cap is off by one *)
read_body_off_by_one(body, max_bytes) ==
    LET read == SubSeq(body, 1, Min(Len(body), max_bytes + 1))
        truncated == Len(read) >= max_bytes
    IN [read |-> read, truncated |-> truncated,
        raw |-> IF truncated THEN SubSeq(read, 1, max_bytes) ELSE read]

(* lines 134-137: response.read(max_bytes + 1), truncated, raw[:max_bytes] *)
read_body(body, max_bytes) ==
    LET read == SubSeq(body, 1, Min(Len(body), max_bytes + 1))
        truncated == Len(read) > max_bytes
    IN [read |-> read, truncated |-> truncated,
        raw |-> IF truncated THEN SubSeq(read, 1, max_bytes) ELSE read]

SuccessRecord(index, url, body, max_bytes) ==
    LET got == read_body(body, max_bytes)
    IN [index |-> index, url |-> url, status |-> OkStatus,
        content_type |-> "text/html", elapsed_seconds |-> Elapsed,
        truncated |-> got.truncated, content |-> decode(got.raw)]

HTTPErrorRecord(index, url, e) ==
    [index |-> index, url |-> url, status |-> ErrStatus,
     content_type |-> "text/html", elapsed_seconds |-> Elapsed,
     error |-> Err("HTTPError:", Reason(e))]

URLErrorRecord(index, url, e) ==
    [index |-> index, url |-> url, elapsed_seconds |-> Elapsed,
     error |-> Err("URLError:", Reason(e))]

(* faulty variant: the message is stored under another key *)
UnexpectedRecordOtherKey(index, url, e) ==
    [index |-> index, url |-> url, elapsed_seconds |-> Elapsed,
     message |-> Err("Unexpected error:", Reason(e))]

UnexpectedRecord(index, url, e) ==
    [index |-> index, url |-> url, elapsed_seconds |-> Elapsed,
     error |-> Err("Unexpected error:", Reason(e))]

(* Request() is built at line 128, before the try block of line 130 *)
InsideTry(e) == e.stage # "request"

fetch_url(index, url, e, max_bytes) ==
    IF ~InsideTry(e) THEN Raises(Raised(e))
    ELSE CASE Raised(e) = "none" -> Returned(SuccessRecord(index, url, e.body, max_bytes))
           [] Raised(e) = "HTTPError" -> Returned(HTTPErrorRecord(index, url, e))
           [] Raised(e) = "URLError" -> Returned(URLErrorRecord(index, url, e))
           [] OTHER -> Returned(UnexpectedRecord(index, url, e))

(* ---------------------------- rendering -------------------------------- *)
(* results.sort(key=lambda entry: entry["index"]): stable insertion sort   *)
RECURSIVE insert_by_index(_, _)
insert_by_index(sorted, entry) ==
    IF sorted = <<>> THEN <<entry>>
    ELSE IF sorted[Len(sorted)].index <= entry.index
         THEN Append(sorted, entry)
         ELSE Append(insert_by_index(SubSeq(sorted, 1, Len(sorted) - 1), entry),
                     sorted[Len(sorted)])

(* faulty variant: the results are left in completion order *)
sort_skipped(rs) == rs

RECURSIVE sort_by_index(_)
sort_by_index(rs) ==
    IF rs = <<>> THEN <<>>
    ELSE insert_by_index(sort_by_index(SubSeq(rs, 1, Len(rs) - 1)), rs[Len(rs)])

(* {k: v for k, v in entry.items() if k != "index"} *)
strip_index(entry) == [k \in DOMAIN entry \ {"index"} |-> entry[k]]
json_payload(rs) == [k \in 1..Len(rs) |-> strip_index(rs[k])]

(* format_results_as_text: one block per entry, the labels it prints *)
text_block(entry) ==
    [url |-> entry.url,
     labels |-> {"URL"}
        \cup (IF "status" \in DOMAIN entry THEN {"Status"} ELSE {})
        \cup (IF "content_type" \in DOMAIN entry /\ entry.content_type # ""
              THEN {"Content-Type"} ELSE {})
        \cup (IF "elapsed_seconds" \in DOMAIN entry THEN {"Elapsed seconds"} ELSE {})
        \cup (IF "truncated" \in DOMAIN entry THEN {"Truncated"} ELSE {})
        \cup (IF "error" \in DOMAIN entry THEN {"Error"} ELSE {"Content"})]
format_results_as_text(rs) == [k \in 1..Len(rs) |-> text_block(rs[k])]

rendered(rs, fmt) ==
    IF fmt = "json" THEN json_payload(rs) ELSE format_results_as_text(rs)

(* What can happen inside write_output: mkdir or the write raise OSError,  *)
(* write_pdf raises RuntimeError when fpdf is not installed.  "parent"     *)
(* says whether the output path's directory exists when mkdir runs.        *)
WriteOutcomes(fmt) ==
    {"ok", "mkdir_oserror", "write_oserror"}
        \cup (IF fmt = "pdf" THEN {"no_fpdf"} ELSE {})

(* ---------------------------- main ------------------------------------- *)
Indices == 0..(Len(urls) - 1)
Range(f) == { f[x] : x \in DOMAIN f }
Running == { i \in DOMAIN task : task[i] = "running" }

Args == [urls : SeqsUpTo(DirectPool, MaxDirect),
         urls_files : FileArgs,
         max_workers : {None, Some(0), Some(1), Some(2)},
         format : {"json", "txt", "pdf"},
         max_bytes : MaxBytesPool]

Init ==
    /\ args \in Args
    /\ cpu = None
    /\ pc = "start"
    /\ urls = <<>>
    /\ workers = 0
    /\ submitted = 0
    /\ queue = <<>>
    /\ task = <<>>
    /\ env = <<>>
    /\ future = <<>>
    /\ yielded = <<>>
    /\ results = <<>>
    /\ handed = <<>>
    /\ written = 0
    /\ fs = [made_dirs |-> FALSE, file |-> None]
    /\ summary = None
    /\ exitCode = NoExit
    /\ interrupted = FALSE

Exit(code) == pc' = "exit" /\ exitCode' = code

(* faulty variant: the empty check is missing *)
NoTargetsIgnored(loaded) == FALSE

(* line 277: "if not urls" *)
NoTargets(loaded) == loaded = <<>>

(* main, lines 274-285: load the URLs, stop when there are none, size and  *)
(* create the pool.  An OSError of load_urls is not caught: traceback,     *)
(* status 1.                                                               *)
Start ==
    /\ pc = "start"
    /\ IF load_urls_raises(args)
       THEN /\ Exit(1)
            /\ UNCHANGED <<urls, workers, task, env, future>>
       ELSE LET loaded == load_urls(args) IN
            /\ urls' = loaded
            /\ IF NoTargets(loaded)
               THEN /\ Exit(1)
                    /\ UNCHANGED <<workers, task, env, future>>
               ELSE /\ workers' = compute_workers(args, cpu, Len(loaded))
                    /\ task' = [i \in 0..(Len(loaded) - 1) |-> "new"]
                    /\ env' = [i \in 0..(Len(loaded) - 1) |-> None]
                    /\ future' = [i \in 0..(Len(loaded) - 1) |-> None]
                    /\ pc' = IF Len(loaded) = 0 THEN "collect" ELSE "submit"
                    /\ UNCHANGED exitCode
    /\ UNCHANGED <<args, cpu, submitted, queue, yielded, results, handed,
                   written, fs, summary, interrupted>>

(* executor.submit(fetch_url, index, url, ...) for the next index *)
Submit ==
    /\ pc = "submit"
    /\ submitted < Len(urls)
    /\ task' = [task EXCEPT ![submitted] = "queued"]
    /\ queue' = Append(queue, submitted)
    /\ submitted' = submitted + 1
    /\ pc' = IF submitted + 1 = Len(urls) THEN "collect" ELSE "submit"
    /\ UNCHANGED <<args, cpu, urls, workers, env, future, yielded, results,
                   handed, written, fs, summary, exitCode, interrupted>>

(* faulty variant: the comparison is inverted, no pool thread ever takes work *)
SlotFreeInverted == Cardinality(Running) > workers

(* faulty variant: the pool starts a thread per task *)
SlotAlwaysFree == TRUE

(* ThreadPoolExecutor(max_workers=workers): a pool thread is free *)
SlotFree == Cardinality(Running) < workers

(* a free pool thread takes the oldest queued work item *)
StartTask ==
    /\ queue # <<>>
    /\ exitCode = NoExit
    /\ SlotFree
    /\ task' = [task EXCEPT ![Head(queue)] = "running"]
    /\ queue' = Tail(queue)
    /\ UNCHANGED <<args, cpu, pc, urls, workers, submitted, env, future, yielded,
                   results, handed, written, fs, summary, exitCode, interrupted>>

(* the pool thread runs fetch_url to its end and sets the future *)
FinishTask(i) ==
    /\ task[i] = "running"
    /\ exitCode = NoExit
    /\ \E e \in EnvEvents(urls[i + 1]) :
        /\ env' = [env EXCEPT ![i] = Some(e)]
        /\ future' = [future EXCEPT
                        ![i] = Some(fetch_url(i, urls[i + 1], e, args.max_bytes))]
    /\ task' = [task EXCEPT ![i] = "done"]
    /\ UNCHANGED <<args, cpu, pc, urls, workers, submitted, queue, yielded,
                   results, handed, written, fs, summary, exitCode, interrupted>>

(* faulty variant: the handler looks the index up wrongly *)
CrashRecordFirstIndex(index, exc) ==
    [index |-> 0, url |-> urls[1], error |-> Err("Worker crashed:", exc)]

(* faulty variant: the handler numbers the record by its arrival position *)
CrashRecordArrivalIndex(index, exc) ==
    [index |-> Len(results), url |-> urls[index + 1],
     error |-> Err("Worker crashed:", exc)]

(* the except branch of the collecting loop, lines 301-309 *)
CrashRecord(index, exc) ==
    [index |-> index, url |-> urls[index + 1],
     error |-> Err("Worker crashed:", exc)]

Collected(i) ==
    LET f == future[i][1] IN
    IF f.raised THEN CrashRecord(i, f.exc) ELSE f.value

(* faulty variant: the except branch appends nothing *)
collect_without_handler(rs, i) ==
    IF future[i][1].raised THEN rs ELSE Append(rs, future[i][1].value)

(* lines 299-309: results.append of the future's result, or of the        *)
(* synthesised record when future.result() raises                          *)
collect(rs, i) == Append(rs, Collected(i))

(* one iteration of "for future in as_completed(future_to_index)" *)
Collect(i) ==
    /\ pc = "collect"
    /\ task[i] = "done"
    /\ i \notin Range(yielded)
    /\ yielded' = Append(yielded, i)
    /\ results' = collect(results, i)
    /\ UNCHANGED <<args, cpu, pc, urls, workers, submitted, queue, task, env,
                   future, handed, written, fs, summary, exitCode, interrupted>>

CountOk(rs) == Cardinality({ k \in 1..Len(rs) : "error" \notin DOMAIN rs[k] })

(* faulty variant: the loop is left after the first result *)
LoopLeftEarly == yielded # <<>>

(* "for future in as_completed(...)" ends when every future was yielded *)
LoopExhausted == Range(yielded) = Indices

(* lines 310-320: the loop is exhausted, the with block ends, the results  *)
(* are sorted and written, the summary is printed.                         *)
WriteAndFinish ==
    /\ pc = "collect"
    /\ LoopExhausted
    /\ results' = sort_by_index(results)
    /\ handed' = results'
    /\ written' = written + 1
    /\ \E w \in WriteOutcomes(args.format), parent \in BOOLEAN :
         CASE w = "ok" ->
                /\ fs' = [made_dirs |-> ~parent,
                          file |-> Some(rendered(results', args.format))]
                /\ summary' = Some(<<CountOk(results'), Len(results')>>)
                /\ Exit(0)
           [] w = "mkdir_oserror" ->
                /\ ~parent
                /\ UNCHANGED <<fs, summary>>
                /\ Exit(1)
           [] w \in {"write_oserror", "no_fpdf"} ->
                /\ fs' = [fs EXCEPT !.made_dirs = ~parent]
                /\ UNCHANGED summary
                /\ Exit(1)
    /\ UNCHANGED <<args, cpu, urls, workers, submitted, queue, task, env, future,
                   yielded, interrupted>>

(* faulty variant: a bare except in the loop swallows the interrupt *)
AfterInterruptSwallowed == "collect"

(* KeyboardInterrupt is no Exception: line 301 does not catch it and the   *)
(* main thread leaves the loop for the end of the with block               *)
AfterInterrupt == "shutdown"

(* KeyboardInterrupt raised in the main thread inside the with block: the  *)
(* exception leaves the loop and enters ThreadPoolExecutor.__exit__, which *)
(* is shutdown(wait=True).                                                 *)
Interrupt ==
    /\ pc \in {"submit", "collect"}
    /\ interrupted' = TRUE
    /\ pc' = AfterInterrupt
    /\ UNCHANGED <<args, cpu, urls, workers, submitted, queue, task, env, future,
                   yielded, results, handed, written, fs, summary, exitCode>>

(* shutdown(wait=True) returns once every pool thread has drained the      *)
(* queue and ended; the exception then reaches line 326: exit status 130.  *)
ExitInterrupted ==
    /\ pc = "shutdown"
    /\ queue = <<>>
    /\ Running = {}
    /\ Exit(130)
    /\ UNCHANGED <<args, cpu, urls, workers, submitted, queue, task, env, future,
                   yielded, results, handed, written, fs, summary, interrupted>>

Next ==
    \/ Start
    \/ Submit
    \/ StartTask
    \/ \E i \in DOMAIN task : FinishTask(i)
    \/ \E i \in DOMAIN task : Collect(i)
    \/ WriteAndFinish
    \/ Interrupt
    \/ ExitInterrupted

Spec == Init /\ [][Next]_vars

(* ---------------------------- scheduling ------------------------------- *)
(* While the main thread or a pool thread can take a step, one of them     *)
(* eventually does, and every fetch_url call ends (the timeout bounds it). *)
(* The interrupt is the user's choice and is not forced.  The runs start from fewer argument    *)
(* lists than Spec: one output format, list files absent or readable.      *)
LiveArgs == [urls : SeqsUpTo(DirectPool, MaxDirect),
             urls_files : { <<>>, <<ListFile>> },
             max_workers : {None, Some(1)},
             format : {"pdf"},
             max_bytes : MaxBytesPool]

InitLive == Init /\ args \in LiveArgs

Progress ==
    \/ Start
    \/ Submit
    \/ StartTask
    \/ \E i \in DOMAIN task : FinishTask(i)
    \/ \E i \in DOMAIN task : Collect(i)
    \/ WriteAndFinish
    \/ ExitInterrupted

Fairness == WF_vars(Progress)

FairSpec == InitLive /\ [][Next]_vars /\ Fairness

(* ---------------------------- compute_workers alone -------------------- *)
(* compute_workers applied to every request count and --max-workers value  *)
(* within the bounds.                                                      *)
MaxTotal == 12
MaxSupplied == 3
WorkerArgs == [urls : {<<>>}, urls_files : {<<>>},
               max_workers : {None} \cup { Some(s) : s \in (0 - MaxSupplied)..MaxSupplied },
               format : {"json"}, max_bytes : MaxBytesPool]
CpuPool == {None, Some(1), Some(2)}

InitWorkers ==
    /\ args \in WorkerArgs
    /\ cpu \in CpuPool
    /\ pc = "sizing"
    /\ urls \in { [k \in 1..n |-> k] : n \in 0..MaxTotal }
    /\ workers = 0
    /\ submitted = 0
    /\ queue = <<>>
    /\ task = <<>>
    /\ env = <<>>
    /\ future = <<>>
    /\ yielded = <<>>
    /\ results = <<>>
    /\ handed = <<>>
    /\ written = 0
    /\ fs = [made_dirs |-> FALSE, file |-> None]
    /\ summary = None
    /\ exitCode = NoExit
    /\ interrupted = FALSE

(* line 281: workers = compute_workers(args, len(urls)) *)
SizePool ==
    /\ pc = "sizing"
    /\ workers' = compute_workers(args, cpu, Len(urls))
    /\ pc' = "sized"
    /\ UNCHANGED <<args, cpu, urls, submitted, queue, task, env, future, yielded,
                   results, handed, written, fs, summary, exitCode, interrupted>>

NextWorkers == SizePool

SpecWorkers == InitWorkers /\ [][NextWorkers]_vars

(* ---------------------------- fetch_url alone -------------------------- *)
(* One successful fetch for every response body and every --max-bytes      *)
(* value within the bounds.                                                *)
MaxBody == 4
MaxCap == 3
ByteValues == {72, 255}
Bodies == SeqsUpTo(ByteValues, MaxBody)
FetchArgs == [urls : {<<"http://a">>}, urls_files : {<<>>}, max_workers : {None},
              format : {"json"}, max_bytes : 0..MaxCap]

InitFetch ==
    /\ args \in FetchArgs
    /\ cpu = None
    /\ pc = "fetching"
    /\ urls = <<"http://a">>
    /\ workers = 1
    /\ submitted = 1
    /\ queue = <<>>
    /\ task = [i \in {0} |-> "running"]
    /\ env \in { [i \in {0} |-> Some(Response(b))] : b \in Bodies }
    /\ future = [i \in {0} |-> None]
    /\ yielded = <<>>
    /\ results = <<>>
    /\ handed = <<>>
    /\ written = 0
    /\ fs = [made_dirs |-> FALSE, file |-> None]
    /\ summary = None
    /\ exitCode = NoExit
    /\ interrupted = FALSE

(* fetch_url(0, url, ...) against a server that answers with env[0].body *)
FetchOnce ==
    /\ pc = "fetching"
    /\ future' = [future EXCEPT
                    ![0] = Some(fetch_url(0, urls[1], env[0][1], args.max_bytes))]
    /\ task' = [task EXCEPT ![0] = "done"]
    /\ pc' = "fetched"
    /\ UNCHANGED <<args, cpu, urls, workers, submitted, queue, env, yielded,
                   results, handed, written, fs, summary, exitCode, interrupted>>

NextFetch == FetchOnce

SpecFetch == InitFetch /\ [][NextFetch]_vars

(* ---------------------------- load_urls alone -------------------------- *)
(* main up to the pool, for every combination of --url values and list     *)
(* files within the bounds.                                                *)
MaxLoadFiles == 2
RepeatFile ==
    [path |-> "repeat.txt", readable |-> TRUE,
     lines |-> << Line(FALSE, "no-scheme"), Line(TRUE, "http://a"),
                  Line(FALSE, "no-scheme") >>]
LoadArgs == [urls : SeqsUpTo(DirectPool \cup {"http://b"}, MaxDirect),
             urls_files : SeqsUpTo({MissingFile, ListFile, Stdin, RepeatFile}, MaxLoadFiles),
             max_workers : {None}, format : {"json"}, max_bytes : MaxBytesPool]

InitLoad ==
    /\ args \in LoadArgs
    /\ cpu = None
    /\ pc = "start"
    /\ urls = <<>>
    /\ workers = 0
    /\ submitted = 0
    /\ queue = <<>>
    /\ task = <<>>
    /\ env = <<>>
    /\ future = <<>>
    /\ yielded = <<>>
    /\ results = <<>>
    /\ handed = <<>>
    /\ written = 0
    /\ fs = [made_dirs |-> FALSE, file |-> None]
    /\ summary = None
    /\ exitCode = NoExit
    /\ interrupted = FALSE

NextLoad == Start

SpecLoad == InitLoad /\ [][NextLoad]_vars

(* ============================ claims =================================== *)
Drained == (pc = "collect" /\ Range(yielded) = Indices) \/ written > 0
FutureOf(i) == future[i][1]
EnvOf(i) == env[i][1]
IsFailure(entry) == "error" \in DOMAIN entry

(* C1: whenever a run reaches the end of the worker-pool block, results    *)
(* holds as many entries as URLs were submitted, whatever each task did    *)
(* (returned a success or a failure record, or raised) and in whatever     *)
(* order the tasks completed.                                              *)
C1_ResultCount ==
    /\ Len(results) = Len(yielded)
    /\ Drained => Len(results) = Len(urls) /\ Len(urls) = submitted

C1_Witness ==
    /\ Drained
    /\ Len(urls) >= 2
    /\ \E i, j \in Indices : FutureOf(i).raised /\ ~FutureOf(j).raised
    /\ \E k \in 1..Len(results) : IsFailure(results[k]) /\ "status" \notin DOMAIN results[k]

(* C2: the entry at position i of the list handed to write_output, and of  *)
(* the output written from it, has the url of the i-th deduplicated input  *)
(* URL, whatever order the tasks completed in.                             *)
C2_OutputOrder ==
    written > 0 =>
        /\ Len(handed) = Len(urls)
        /\ \A k \in 1..Len(urls) : handed[k].url = urls[k]
        /\ fs.file # None =>
             /\ Len(fs.file[1]) = Len(urls)
             /\ \A k \in 1..Len(urls) : fs.file[1][k].url = urls[k]

C2_Witness ==
    /\ written > 0
    /\ fs.file # None
    /\ args.format = "json"
    /\ Len(yielded) >= 3
    /\ yielded[1] > yielded[2]

(* C3: once the pool has drained, every request index 0..len(urls)-1 has   *)
(* exactly one result, and that result carries the URL of its index, for   *)
(* results returned by fetch_url and for those the crash handler built.    *)
C3_OneResultPerIndex ==
    Drained =>
        \A i \in Indices :
            /\ Cardinality({ k \in 1..Len(results) : results[k].index = i }) = 1
            /\ \A k \in 1..Len(results) :
                 results[k].index = i => results[k].url = urls[i + 1]

C3_Witness ==
    /\ Drained
    /\ \E i \in Indices : i > 0 /\ FutureOf(i).raised
    /\ \E i \in Indices : i > 0 /\ ~FutureOf(i).raised

(* C4: fetch_url never raises: every finished future holds a returned      *)
(* record, also for a URL that Request() rejects.                          *)
C4_FetchNeverRaises ==
    \A i \in DOMAIN future : future[i] # None => ~FutureOf(i).raised

(* C5: after a KeyboardInterrupt in the collecting loop (every task has    *)
(* been submitted) the process exits at once: no queued fetch is started   *)
(* any more, and the exit does not wait for running fetches (it is         *)
(* possible while fetches are running or queued).                          *)
C5_ImmediateExit ==
    [][ interrupted /\ submitted = Len(urls) =>
          /\ \A i \in DOMAIN task : task[i] = "queued" => task'[i] = "queued"
          /\ (pc = "shutdown" => ENABLED ExitInterrupted) ]_vars

(* C6: at most compute_workers(...) fetch_url calls run at the same time;  *)
(* a queued request starts only when fewer than that many are running.     *)
C6_BoundedConcurrency ==
    /\ pc # "start" /\ urls # <<>> =>
         Cardinality(Running) <= compute_workers(args, cpu, Len(urls))
    /\ queue # <<>> /\ Cardinality(Running) >= workers => ~ENABLED StartTask

C6_Witness ==
    /\ queue # <<>>
    /\ Cardinality(Running) = workers
    /\ workers = 2

(* C7: compute_workers follows the stated policy: one request gives 1;     *)
(* otherwise a supplied count s (0 and negative values included) gives     *)
(* max(1, s); otherwise max(1, min(total, parallelism * 5)).               *)
StatedPolicy(supplied, parallelism, total) ==
    IF total = 1 THEN 1
    ELSE IF supplied # None THEN Max(1, supplied[1])
    ELSE Max(1, Min(total, parallelism * CpuFactor))

C7_WorkerPolicy ==
    pc = "sized" /\ Len(urls) >= 1 =>
        workers = StatedPolicy(args.max_workers,
                               IF cpu = None THEN DefaultCpuCount ELSE cpu[1],
                               Len(urls))

(* C8: a request whose timeout expired, while connecting or while reading  *)
(* the body, ends as a failure whose error starts with "URLError:" and     *)
(* that has no status.                                                     *)
C8_TimeoutIsURLError ==
    \A i \in DOMAIN future :
        future[i] # None /\ EnvOf(i).cause = "timeout" =>
            /\ ~FutureOf(i).raised
            /\ IsFailure(FutureOf(i).value)
            /\ FutureOf(i).value.error.prefix = "URLError:"
            /\ "status" \notin DOMAIN FutureOf(i).value

(* C9: with an empty deduplicated URL list the run exits with status 1     *)
(* and never creates the pool, submits a task or writes output.            *)
C9_NoTargets ==
    pc # "start" /\ ~load_urls_raises(args) /\ load_urls(args) = <<>> =>
        /\ pc = "exit" /\ exitCode = 1
        /\ workers = 0 /\ submitted = 0 /\ DOMAIN task = {}
        /\ written = 0 /\ fs.file = None /\ ~fs.made_dirs

C9_Witness ==
    /\ pc = "exit"
    /\ ~load_urls_raises(args)
    /\ load_urls(args) = <<>>
    /\ args.urls # <<>>
    /\ args.urls_files # <<>>

(* C10: per-URL failures never abort the run: once the pool exists, a run  *)
(* that is not interrupted ends only in write_output; when the output is   *)
(* written the summary is printed, the status is 0, and every URL whose    *)
(* fetch failed is a failure record in the list and in the output.         *)
Failed(i) == EnvOf(i).stage # "none"
ShownAsFailure(k) ==
    IF args.format = "json" THEN IsFailure(fs.file[1][k])
    ELSE "Error" \in fs.file[1][k].labels

C10_FailuresNotFatal ==
    /\ pc = "exit" /\ workers > 0 /\ ~interrupted => written = 1
    /\ fs.file # None =>
         /\ pc = "exit" /\ exitCode = 0 /\ summary # None
         /\ summary[1][2] = Len(urls)
         /\ \A i \in Indices :
              Failed(i) <=> (IsFailure(handed[i + 1]) /\ ShownAsFailure(i + 1))

C10_Witness ==
    /\ fs.file # None
    /\ exitCode = 0
    /\ Len(urls) >= 2
    /\ \A i \in Indices : Failed(i)
    /\ \E i \in Indices : FutureOf(i).raised
    /\ summary[1][1] = 0
(* C11: a successful fetch reads at most max_bytes + 1 bytes, sets         *)
(* truncated exactly when the body is longer than max_bytes, and keeps the *)
(* first min(L, max_bytes) bytes of the body.                              *)
C11_Truncation ==
    pc = "fetched" =>
        LET body == EnvOf(0).body
            cap == args.max_bytes
            kept == Min(Len(body), cap)
            entry == FutureOf(0).value
        IN /\ ~FutureOf(0).raised
           /\ Len(read_body(body, cap).read) <= cap + 1
           /\ entry.truncated = (Len(body) > cap)
           /\ Len(entry.content) = kept
           /\ entry.content = decode(SubSeq(body, 1, kept))

C11_Witness ==
    /\ pc = "fetched"
    /\ Len(EnvOf(0).body) = args.max_bytes + 2
    /\ args.max_bytes = 2
    /\ FutureOf(0).value.truncated
    /\ FutureOf(0).value.content = <<72, ReplacementChar>>
(* C12: load_urls returns the distinct non-empty inputs, none repeated and *)
(* none empty, each at the relative position of its first occurrence in    *)
(* the combined sequence: the --url values, then the entries of the list   *)
(* files in the order given.                                               *)
Combined ==
    args.urls \o Concat([k \in 1..Len(args.urls_files) |->
                            read_urls_file(args.urls_files[k])])
FirstPos(s, x) == CHOOSE k \in 1..Len(s) : s[k] = x /\ \A j \in 1..(k - 1) : s[j] # x

C12_LoadUrls ==
    pc # "start" /\ ~load_urls_raises(args) =>
        /\ \A i, j \in 1..Len(urls) : i # j => urls[i] # urls[j]
        /\ \A i \in 1..Len(urls) : urls[i] # ""
        /\ Range(urls) = Range(Combined) \ {""}
        /\ \A i, j \in 1..Len(urls) :
             i < j => FirstPos(Combined, urls[i]) < FirstPos(Combined, urls[j])

C12_Witness ==
    /\ pc # "start"
    /\ ~load_urls_raises(args)
    /\ Len(urls) = 3
    /\ Len(Combined) >= 6
    /\ "" \in Range(args.urls)
    /\ Len(args.urls_files) = 2
(* C13: when write_output fails (fpdf missing, or the path cannot be       *)
(* written) nothing is written: no new file and no new directory is left   *)
(* behind, and the run ends with a non-zero status after the fetches.      *)
WriteFailed == written > 0 /\ summary = None

C13_NothingWritten ==
    WriteFailed =>
        /\ pc = "exit" /\ exitCode # 0 /\ exitCode # NoExit
        /\ Range(yielded) = Indices
        /\ fs.file = None
        /\ ~fs.made_dirs
(* C14: when a declared list file other than "-" cannot be opened, the run *)
(* ends with a non-zero status before any fetch task is submitted, also    *)
(* when --url values or earlier list files supplied valid targets.         *)
Unreadable(file) == file.path # "-" /\ ~file.readable

C14_UnreadableListFile ==
    pc # "start" /\ (\E k \in 1..Len(args.urls_files) : Unreadable(args.urls_files[k])) =>
        /\ pc = "exit" /\ exitCode # 0 /\ exitCode # NoExit
        /\ submitted = 0 /\ workers = 0 /\ DOMAIN task = {}
        /\ written = 0 /\ fs.file = None

C14_Witness ==
    /\ pc = "exit"
    /\ Len(args.urls_files) = 2
    /\ ~Unreadable(args.urls_files[1])
    /\ read_urls_file(args.urls_files[1]) # <<>>
    /\ Unreadable(args.urls_files[2])
    /\ "http://a" \in Range(args.urls)
(* C15: after an interrupt during the fetch phase write_output is never   *)
(* called and no output file is produced; the run ends with status 130.    *)
C15_InterruptWritesNothing ==
    interrupted =>
        /\ written = 0 /\ handed = <<>> /\ summary = None
        /\ fs.file = None /\ ~fs.made_dirs
        /\ pc \in {"shutdown", "exit"}
        /\ pc = "exit" => exitCode = 130

C15_Witness ==
    /\ interrupted
    /\ pc = "exit"
    /\ exitCode = 130
    /\ Len(results) >= 1
    /\ Len(results) < Len(urls)
(* C16: every run terminates: provided every fetch_url call ends, the run  *)
(* reaches an exit (the summary line or a fatal exit) for every URL list   *)
(* and worker count.                                                       *)
C16_Terminates == <>(pc = "exit")

C16_Witness ==
    /\ pc = "exit"
    /\ exitCode = 0
    /\ Len(urls) = 3
    /\ workers = 1
(* C17: every failure record of the result set has the keys url,          *)
(* elapsed_seconds and error, whichever path built it, and every success   *)
(* record has url, status, content_type, elapsed_seconds, truncated and    *)
(* content.                                                                *)
FailureKeys == {"url", "elapsed_seconds", "error"}
SuccessKeys == {"url", "status", "content_type", "elapsed_seconds", "truncated", "content"}

C17_RecordKeys ==
    \A k \in 1..Len(results) :
        IF IsFailure(results[k])
        THEN FailureKeys \subseteq DOMAIN results[k]
        ELSE SuccessKeys \subseteq DOMAIN results[k]
(* C18: the list handed to write_output is determined by the URL list and *)
(* the per-request outcomes alone: position i holds the record that        *)
(* request i's outcome gives, so two runs with the same URLs and outcomes  *)
(* hand over the same list whatever the completion order and the worker    *)
(* count.                                                                  *)
RecordOf(i, url, e, max_bytes) ==
    CASE e.stage = "request" ->
           [index |-> i, url |-> url, error |-> Err("Worker crashed:", "ValueError")]
      [] e.stage = "none" ->
           [index |-> i, url |-> url, status |-> OkStatus, content_type |-> "text/html",
            elapsed_seconds |-> Elapsed,
            truncated |-> Len(e.body) > max_bytes,
            content |-> decode(SubSeq(e.body, 1, Min(Len(e.body), max_bytes)))]
      [] e.stage = "status" ->
           [index |-> i, url |-> url, status |-> ErrStatus, content_type |-> "text/html",
            elapsed_seconds |-> Elapsed, error |-> Err("HTTPError:", Reason(e))]
      [] e.stage = "connect" ->
           [index |-> i, url |-> url, elapsed_seconds |-> Elapsed,
            error |-> Err("URLError:", Reason(e))]
      [] e.stage = "read" ->
           [index |-> i, url |-> url, elapsed_seconds |-> Elapsed,
            error |-> Err("Unexpected error:", Reason(e))]

C18_OrderIndependent ==
    written > 0 =>
        handed = [k \in 1..Len(urls) |->
                    RecordOf(k - 1, urls[k], EnvOf(k - 1), args.max_bytes)]

C18_Witness ==
    /\ written > 0
    /\ Len(urls) = 3
    /\ workers = 2
    /\ yielded[1] = 2
    /\ yielded[3] = 0
    /\ \E i \in Indices : FutureOf(i).raised
    /\ \E i \in Indices : ~IsFailure(handed[i + 1])
(* C19: write_output is called at most once, and only when every          *)
(* submitted task has completed, every result has been collected and the   *)
(* results are sorted by index; from then on no task is running and no     *)
(* result is appended.                                                     *)
C19_Lifecycle ==
    /\ written <= 1
    /\ written > 0 =>
         /\ submitted = Len(urls)
         /\ \A i \in Indices : task[i] = "done" /\ i \in Range(yielded)
         /\ Running = {} /\ queue = <<>>
         /\ Len(handed) = Len(urls)
         /\ \A k \in 1..(Len(handed) - 1) : handed[k].index < handed[k + 1].index
         /\ results = handed
         /\ Len(yielded) = Len(urls)

C19_Witness ==
    /\ written = 1
    /\ exitCode = 0
    /\ Len(urls) = 3
    /\ yielded[1] > yielded[3]
    /\ workers = 1
(* C20: compute_workers returns at least 1 for every total_urls >= 0 and   *)
(* every --max-workers value (absent, zero, negative, positive), so the    *)
(* pool is always built with a positive size.                              *)
C20_PositiveWorkers ==
    pc = "sized" => workers >= 1

C20_Witness ==
    /\ pc = "sized"
    /\ args.max_workers # None
    /\ args.max_workers[1] < 0
    /\ Len(urls) >= 2
    /\ workers = 1

====
